---- MODULE Spec2Model ----
(***************************************************************************)
(* Model of the paged B+-tree storage engine of mkdb (storage/page.go):    *)
(* the page codec, the node operations, the file-backed store with its     *)
(* LRU cache, and the background flusher.                                  *)
(*                                                                         *)
(* Three specifications share the variables:                               *)
(*   SpecCodec  one node built by node operations, encoded and decoded     *)
(*   Spec       the file store driven by one thread, one call at a time    *)
(*   SpecConc   the file store with its flusher goroutine, a mutator and   *)
(*              close(), interleaved at the granularity of memory and      *)
(*              file accesses                                              *)
(***************************************************************************)
EXTENDS Integers, Sequences, FiniteSets, TLC

(***************************************************************************)
(* Program constants (page.go:14-63).                                      *)
(***************************************************************************)
InternalNode == 0
LeafNode == 1
pageSize == 4096
internalNodeHeaderSize == 1 + 8 + 8 + 8 + 4 + 2
leafNodeHeaderSize == 1 + 8 + 8 + 1 + 1 + 8 + 8 + 4 + 2
offsetElemSize == 2
internalNodeCellSize == 4 + 8
maxValueSize == 400
leafNodeCellSize == 4 + 1 + 4 + maxValueSize
maxInternalNodeCells == (pageSize - internalNodeHeaderSize) \div (offsetElemSize + internalNodeCellSize)
\* a leaf capacity that rounds up
maxLeafNodeCells_RoundUp == (pageSize - leafNodeHeaderSize) \div (offsetElemSize + leafNodeCellSize) + 1
maxLeafNodeCells == (pageSize - leafNodeHeaderSize) \div (offsetElemSize + leafNodeCellSize)
\* size of the persistent header written by save: 4 + 8 + 8 + 8 bytes
headerSize == 4 + 8 + 8 + 8

(***************************************************************************)
(* Integers.  TLC's integers are 32 bits wide, the program's are up to 64. *)
(* Every number the program itself produces here is far below 2^24; a      *)
(* number read back from bytes that is 2^24 or more (only garbage decodes  *)
(* to one) is kept as the single value Huge.                               *)
(***************************************************************************)
Huge == 2147483647
Uint16(x) == x % 65536
Max(a, b) == IF a >= b THEN a ELSE b
Min(a, b) == IF a <= b THEN a ELSE b

(***************************************************************************)
(* Byte strings.  A byte string is [len, nz]: its length and the function  *)
(* from the (1-based) positions of its non-zero bytes to those bytes.      *)
(* Each byte string has exactly one such representation.                   *)
(***************************************************************************)
ByteAt(b, i) == IF i \in DOMAIN b.nz THEN b.nz[i] ELSE 0

\* make([]byte, n)
ZeroBytes(n) == [len |-> n, nz |-> [i \in {} |-> 0]]

\* the byte string holding the bytes of the sequence s
Pack(s) == [len |-> Len(s), nz |-> [i \in {j \in 1..Len(s) : s[j] # 0} |-> s[i]]]

\* the bytes head, then pad zero bytes, then the bytes foot, as one buffer
Assemble(head, pad, foot) ==
    LET hl == Len(head)
        hs == {j \in 1..hl : head[j] # 0}
        fs == {hl + pad + k : k \in {j \in 1..Len(foot) : foot[j] # 0}}
    IN  [len |-> hl + pad + Len(foot),
         nz  |-> [i \in hs \cup fs |-> IF i <= hl THEN head[i] ELSE foot[i - hl - pad]]]

\* binary.Write(buf, binary.LittleEndian, v) of an unsigned integer of w bytes
LE(v, w) == [i \in 1..w |-> CASE i = 1 -> v % 256
                              [] i = 2 -> (v \div 256) % 256
                              [] i = 3 -> (v \div 65536) % 256
                              [] i = 4 -> (v \div 16777216) % 256
                              [] OTHER -> 0]

\* binary.Write of a bool
BoolByte(x) == IF x THEN <<1>> ELSE <<0>>

\* binary.Read(buf, binary.LittleEndian, &v): the w bytes after position pos
ReadLE(b, pos, w) ==
    IF \E i \in 4..w : ByteAt(b, pos + i) # 0
    THEN Huge
    ELSE ByteAt(b, pos + 1)
         + (IF w >= 2 THEN 256 * ByteAt(b, pos + 2) ELSE 0)
         + (IF w >= 3 THEN 65536 * ByteAt(b, pos + 3) ELSE 0)

\* binary.Read of a bool: any non-zero byte is true
ReadBool(b, pos) == ByteAt(b, pos + 1) # 0

\* the n bytes of b after position pos, as a sequence
Slice(b, pos, n) == [i \in 1..n |-> ByteAt(b, pos + i)]

\* os.File.WriteAt(d, off): the file grows, with a hole of zeros, as needed
WriteAt(f, d, off) ==
    LET keep == {j \in DOMAIN f.nz : j <= off \/ j > off + d.len}
        new  == {off + j : j \in DOMAIN d.nz}
    IN  [len |-> Max(f.len, off + d.len),
         nz  |-> [i \in keep \cup new |-> IF i > off /\ i <= off + d.len THEN d.nz[i - off] ELSE f.nz[i]]]

\* buf := make([]byte, n); os.File.ReadAt(buf, off), io.EOF ignored: the bytes
\* past the end of the file stay zero
ReadAt(f, off, n) ==
    LET src == {j \in DOMAIN f.nz : j > off /\ j <= off + n}
    IN  [len |-> n, nz |-> [i \in {j - off : j \in src} |-> f.nz[i + off]]]

(***************************************************************************)
(* Nodes (page.go:80-141, 334-341).  offsets holds 0-based indices into    *)
(* cells, as in the program; cells is a 1-based sequence, so the cell an   *)
(* index k names is cells[k + 1].  NilCell is a nil *cell.                 *)
(***************************************************************************)
NilCell == [nil |-> TRUE]

newInternalNode ==
    [kind |-> InternalNode, fileOffset |-> 0, offsets |-> <<>>, freeSize |-> 0,
     dirty |-> FALSE, lastLSN |-> 0, cells |-> <<>>, rightOffset |-> 0]

newLeafNode ==
    [kind |-> LeafNode, fileOffset |-> 0, offsets |-> <<>>, freeSize |-> 0,
     dirty |-> FALSE, lastLSN |-> 0, cells |-> <<>>,
     hasLSib |-> FALSE, hasRSib |-> FALSE, lSibFileOffset |-> 0, rSibFileOffset |-> 0]

markDirty(n, lsn) == [n EXCEPT !.lastLSN = lsn, !.dirty = TRUE]
markClean(n) == [n EXCEPT !.dirty = FALSE]
setFileOffset(n, offset) == [n EXCEPT !.fileOffset = offset]

\* whether slot index k names a cell of n that exists
ValidIndex(n, k) == k >= 0 /\ k < Len(n.cells) /\ n.cells[k + 1] # NilCell

\* whether the (0-based) slots from .. len(n.offsets) - 1 name cells that exist
SlotsFrom(n, from) == \A i \in (from + 1)..Len(n.offsets) : ValidIndex(n, n.offsets[i])

\* n.cells[offset].key
cellKey(n, offset) == n.cells[offset + 1].key

\* the keys of n in slot order
SlotKeys(n) == [i \in 1..Len(n.offsets) |-> cellKey(n, n.offsets[i])]

isFull(n) ==
    IF n.kind = LeafNode THEN Len(n.offsets) >= maxLeafNodeCells
                         ELSE Len(n.offsets) >= maxInternalNodeCells

(***************************************************************************)
(* Node operations (page.go:147-222, 343-431).  An operation that can      *)
(* panic returns a record with a panic field; a panic ends the process.    *)
(***************************************************************************)
\* a size check that also rejects a value of exactly maxValueSize bytes
checkRowSizeLimit_Inclusive(value) == Len(value) >= maxValueSize

\* checkRowSizeLimit: TRUE when the value is rejected with ErrRowTooLarge
checkRowSizeLimit(value) == Len(value) > maxValueSize

\* internalNode.findCellOffsetByKey and leafNode.findCellOffsetByKey: the
\* loop of the binary search, from its state (low, high)
RECURSIVE findLoop(_, _, _, _)
findLoop(n, key, low, high) ==
    IF low > high
    THEN [offset |-> low, found |-> FALSE, panic |-> FALSE]
    ELSE LET mid == low + ((high - low) \div 2)
         IN  IF ~ValidIndex(n, n.offsets[mid + 1])
             THEN [offset |-> mid, found |-> FALSE, panic |-> TRUE]
             ELSE LET midVal == cellKey(n, n.offsets[mid + 1])
                  IN  IF midVal = key
                      THEN [offset |-> mid, found |-> TRUE, panic |-> FALSE]
                      ELSE IF midVal < key
                           THEN findLoop(n, key, mid + 1, high)
                           ELSE findLoop(n, key, low, mid - 1)

\* a search that leaves out the last slot
findCellOffsetByKey_ShortHigh(n, key) == findLoop(n, key, 0, Len(n.offsets) - 2)

findCellOffsetByKey(n, key) == findLoop(n, key, 0, Len(n.offsets) - 1)

\* internalNode.appendCell: the new slot holds len(n.offsets)
internalNode_appendCell(n, key, fileOffset) ==
    [n EXCEPT !.offsets = Append(n.offsets, Uint16(Len(n.offsets))),
              !.cells = Append(n.cells, [key |-> key, fileOffset |-> fileOffset])]

\* leafNode.appendCell: the new cell is never marked deleted
leafNode_appendCell(n, key, value) ==
    [n EXCEPT !.offsets = Append(n.offsets, Uint16(Len(n.offsets))),
              !.cells = Append(n.cells, [key |-> key, valueSize |-> Len(value),
                                         valueBytes |-> value, deleted |-> FALSE])]

\* an insertion that repeats the last slot instead of shifting the slots
InsertSlot_NoShift(s, offset, v) ==
    [i \in 1..(Len(s) + 1) |-> IF i = offset + 1 THEN v
                                 ELSE IF i <= Len(s) THEN s[i]
                                 ELSE s[Len(s)]]

\* append(s[:offset+1], s[offset:]...) followed by s[offset] = v, for offset < len(s)
InsertSlot(s, offset, v) ==
    [i \in 1..(Len(s) + 1) |-> IF i <= offset THEN s[i]
                                 ELSE IF i = offset + 1 THEN v
                                 ELSE s[i - 1]]

\* internalNode.insertCell.  With offset >= len(n.offsets) the slice
\* expression n.offsets[:offset+1] (beyond the capacity) or the index
\* n.offsets[offset+1] of the last statement (beyond the length) is out of
\* range, so the call panics.
internalNode_insertCell(n, offset, key, fileOffset) ==
    IF offset >= Len(n.offsets)
    THEN [panic |-> TRUE, node |-> n]
    ELSE LET offs  == InsertSlot(n.offsets, offset, Uint16(Len(n.cells)))
             cells == Append(n.cells, [key |-> key, fileOffset |-> fileOffset])
             a     == offs[offset + 1]
             b     == offs[offset + 2]
         IN  IF ~(b >= 0 /\ b < Len(cells) /\ cells[b + 1] # NilCell)
             THEN [panic |-> TRUE, node |-> n]
             ELSE [panic |-> FALSE,
                   node  |-> [n EXCEPT !.offsets = offs,
                                       !.cells = [i \in 1..Len(cells) |->
                                           IF i = a + 1 /\ i = b + 1 THEN cells[i]
                                           ELSE IF i = a + 1 THEN [cells[i] EXCEPT !.fileOffset = cells[b + 1].fileOffset]
                                           ELSE IF i = b + 1 THEN [cells[i] EXCEPT !.fileOffset = cells[a + 1].fileOffset]
                                           ELSE cells[i]]]]

\* leafNode.insertCell: err is "" or "ErrRowTooLarge"
leafNode_insertCell(n, offset, key, value) ==
    LET cell == [key |-> key, valueSize |-> Len(value), valueBytes |-> value, deleted |-> FALSE]
    IN  IF checkRowSizeLimit(value)
        THEN [panic |-> FALSE, err |-> "ErrRowTooLarge", node |-> n]
        ELSE IF Len(n.offsets) = offset
        THEN [panic |-> FALSE, err |-> "",
              node |-> [n EXCEPT !.offsets = Append(n.offsets, Uint16(Len(n.cells))),
                                 !.cells = Append(n.cells, cell)]]
        ELSE IF offset > Len(n.offsets)
        THEN [panic |-> TRUE, err |-> "", node |-> n]
        ELSE [panic |-> FALSE, err |-> "",
              node |-> [n EXCEPT !.offsets = InsertSlot(n.offsets, offset, Uint16(Len(n.cells))),
                                 !.cells = Append(n.cells, cell)]]

\* leafNode.updateCell: err is "", "ErrRowTooLarge" or "NotFound".  The
\* slot number that findCellOffsetByKey returns indexes n.cells directly.
leafNode_updateCell(n, key, value) ==
    IF checkRowSizeLimit(value)
    THEN [panic |-> FALSE, err |-> "ErrRowTooLarge", node |-> n]
    ELSE LET at == findCellOffsetByKey(n, key)
         IN  IF at.panic \/ (at.found /\ ~ValidIndex(n, at.offset))
             THEN [panic |-> TRUE, err |-> "", node |-> n]
             ELSE IF ~at.found
             THEN [panic |-> FALSE, err |-> "NotFound", node |-> n]
             ELSE [panic |-> FALSE, err |-> "",
                   node |-> [n EXCEPT !.cells[at.offset + 1].valueBytes = value,
                                      !.cells[at.offset + 1].valueSize = Len(value)]]

\* the loop of split: appendCell of each of the cells cs, in order, to n
RECURSIVE appendCells(_, _)
appendCells(n, cs) ==
    IF cs = <<>> THEN n
    ELSE appendCells(IF n.kind = LeafNode
                     THEN leafNode_appendCell(n, Head(cs).key, Head(cs).valueBytes)
                     ELSE internalNode_appendCell(n, Head(cs).key, Head(cs).fileOffset),
                     Tail(cs))

\* the cells of p at the (0-based) slots from .. len(p.offsets) - 1, in slot order
CellsFrom(p, from) ==
    [i \in 1..(Len(p.offsets) - from) |-> p.cells[p.offsets[from + i] + 1]]

\* internalNode.split: key is the separator returned, old the receiver p
\* and new the node newPg after the call.  The separator and the new right
\* pointer of p are read from p.cells[mid]; p.cells is left as it is.
internalNode_split(p, newPg) ==
    LET mid == Len(p.offsets) \div 2
    IN  IF ~SlotsFrom(p, mid + 1) \/ ~ValidIndex(p, mid)
        THEN [panic |-> TRUE, key |-> 0, old |-> p, new |-> newPg]
        ELSE [panic |-> FALSE,
              key |-> p.cells[mid + 1].key,
              old |-> [p EXCEPT !.rightOffset = p.cells[mid + 1].fileOffset,
                                !.offsets = SubSeq(p.offsets, 1, mid)],
              new |-> [appendCells(newPg, CellsFrom(p, mid + 1)) EXCEPT !.rightOffset = p.rightOffset]]

\* a leaf split that moves the slots after mid only
leafNode_split_SkipMid(p, newPg) ==
    LET mid == Len(p.offsets) \div 2
        new == appendCells(newPg, CellsFrom(p, mid + 1))
    IN  IF ~SlotsFrom(p, mid) \/ Len(new.offsets) = 0
        THEN [panic |-> TRUE, key |-> 0, old |-> p, new |-> newPg]
        ELSE [panic |-> FALSE,
              key |-> cellKey(new, new.offsets[1]),
              old |-> [p EXCEPT !.offsets = SubSeq(p.offsets, 1, mid)],
              new |-> new]

\* leafNode.split: the separator is the key of the first slot of newPg
leafNode_split(p, newPg) ==
    LET mid == Len(p.offsets) \div 2
        new == appendCells(newPg, CellsFrom(p, mid))
    IN  IF ~SlotsFrom(p, mid) \/ Len(new.offsets) = 0
        THEN [panic |-> TRUE, key |-> 0, old |-> p, new |-> newPg]
        ELSE [panic |-> FALSE,
              key |-> cellKey(new, new.offsets[1]),
              old |-> [p EXCEPT !.offsets = SubSeq(p.offsets, 1, mid)],
              new |-> new]

(***************************************************************************)
(* Page codec (page.go:224-332, 433-573).                                  *)
(***************************************************************************)
\* the concatenation of the sequences of ss, by halves
RECURSIVE ConcatAll(_)
ConcatAll(ss) ==
    IF Len(ss) = 0 THEN <<>>
    ELSE IF Len(ss) = 1 THEN ss[1]
    ELSE LET m == Len(ss) \div 2
         IN  ConcatAll(SubSeq(ss, 1, m)) \o ConcatAll(SubSeq(ss, m + 1, Len(ss)))

\* the slot array as written by the loop over p.offsets
OffsetBytes(p) == ConcatAll([i \in 1..Len(p.offsets) |-> LE(p.offsets[i], 2)])

\* whether every slot names a cell: otherwise p.cells[p.offsets[i]] panics
SlotsValid(p) == \A i \in 1..Len(p.offsets) : ValidIndex(p, p.offsets[i])

\* what encode returns once buf, bufFooter are filled: the free size is a
\* uint16, and the function panics unless the buffer is exactly one page
FinishPage(buf, bufFooter) ==
    LET freeSize == Uint16(pageSize - Len(buf) - Len(bufFooter) - 2)
        page     == Assemble(buf \o LE(freeSize, 2), freeSize, bufFooter)
    IN  [panic |-> page.len # pageSize, freeSize |-> freeSize, page |-> page]

internalNode_encode(p) ==
    IF ~SlotsValid(p)
    THEN [panic |-> TRUE, freeSize |-> 0, page |-> ZeroBytes(0)]
    ELSE LET buf == <<InternalNode>> \o LE(p.fileOffset, 8) \o LE(p.lastLSN, 8)
                    \o LE(p.rightOffset, 8) \o LE(Len(p.offsets), 4) \o OffsetBytes(p)
             bufFooter == ConcatAll([i \in 1..Len(p.offsets) |->
                              LET keyCell == p.cells[p.offsets[i] + 1]
                              IN  LE(keyCell.key, 4) \o LE(keyCell.fileOffset, 8)])
         IN  FinishPage(buf, bufFooter)

leafNode_encode(p) ==
    IF ~SlotsValid(p)
    THEN [panic |-> TRUE, freeSize |-> 0, page |-> ZeroBytes(0)]
    ELSE LET buf == <<LeafNode>> \o LE(p.fileOffset, 8) \o LE(p.lastLSN, 8)
                    \o BoolByte(p.hasLSib) \o BoolByte(p.hasRSib)
                    \o LE(p.lSibFileOffset, 8) \o LE(p.rSibFileOffset, 8)
                    \o LE(Len(p.offsets), 4) \o OffsetBytes(p)
             bufFooter == ConcatAll([i \in 1..Len(p.offsets) |->
                              LET keyCell == p.cells[p.offsets[i] + 1]
                              IN  LE(keyCell.key, 4) \o BoolByte(keyCell.deleted)
                                  \o LE(keyCell.valueSize, 4) \o keyCell.valueBytes])
         IN  FinishPage(buf, bufFooter)

\* btreeNode.encode
encode(p) == IF p.kind = LeafNode THEN leafNode_encode(p) ELSE internalNode_encode(p)

\* the slot array read by the first loop of decode, from position pos
ReadOffsets(buf, pos, cellCount) == [i \in 1..cellCount |-> ReadLE(buf, pos + 2 * (i - 1), 2)]

\* The second loop of decode runs over a state st = [err, pos, cells]: the
\* error met so far ("" for none), the read position and p.cells.

\* internalNode_decodeCell with the cell stored at p.cells[i], the order of
\* the footer, and not at p.cells[p.offsets[i]]
internalNode_decodeCell_InOrder(buf, offs, i, st) ==
    IF st.pos + 12 > buf.len
    THEN [st EXCEPT !.err = "EOF"]
    ELSE [st EXCEPT !.pos = st.pos + 12,
                    !.cells[i + 1] = [key |-> ReadLE(buf, st.pos, 4),
                                      fileOffset |-> ReadLE(buf, st.pos + 4, 8)]]

\* iteration i of the second loop of internalNode.decode: the cell is read
\* from the buffer and stored at p.cells[p.offsets[i]]
internalNode_decodeCell(buf, offs, i, st) ==
    IF st.pos + 12 > buf.len
    THEN [st EXCEPT !.err = "EOF"]
    ELSE IF offs[i + 1] >= Len(st.cells)
    THEN [st EXCEPT !.err = "panic"]
    ELSE [st EXCEPT !.pos = st.pos + 12,
                    !.cells[offs[i + 1] + 1] = [key |-> ReadLE(buf, st.pos, 4),
                                                fileOffset |-> ReadLE(buf, st.pos + 4, 8)]]

\* iteration i of the second loop of leafNode.decode.  bytes.Buffer.Read
\* fills what is left of the buffer into a value of valueSize bytes and
\* fails only on an empty buffer.  A value longer than a page (only garbage
\* decodes to one) is kept at pageSize + 1 bytes.
leafNode_decodeCell(buf, offs, i, st) ==
    IF st.pos + 9 > buf.len
    THEN [st EXCEPT !.err = "EOF"]
    ELSE LET valueSize == ReadLE(buf, st.pos + 5, 4)
             size  == Min(valueSize, pageSize + 1)
             avail == buf.len - (st.pos + 9)
             got   == Min(size, avail)
         IN  IF size > 0 /\ avail = 0
             THEN [st EXCEPT !.err = "EOF"]
             ELSE IF offs[i + 1] >= Len(st.cells)
             THEN [st EXCEPT !.err = "panic"]
             ELSE [st EXCEPT !.pos = st.pos + 9 + got,
                             !.cells[offs[i + 1] + 1] =
                                 [key |-> ReadLE(buf, st.pos, 4),
                                  valueSize |-> valueSize,
                                  valueBytes |-> [j \in 1..size |->
                                      IF j <= got THEN ByteAt(buf, st.pos + 9 + j) ELSE 0],
                                  deleted |-> ReadBool(buf, st.pos + 4)]]

\* the iterations lo .. hi - 1 of the second loop of decode, in order, from
\* the state st: the first error ends the loop
RECURSIVE decodeCells(_, _, _, _, _, _)
decodeCells(kind, buf, offs, lo, hi, st) ==
    IF st.err # "" \/ lo >= hi THEN st
    ELSE IF hi = lo + 1
    THEN IF kind = LeafNode THEN leafNode_decodeCell(buf, offs, lo, st)
                            ELSE internalNode_decodeCell(buf, offs, lo, st)
    ELSE LET mid  == lo + ((hi - lo) \div 2)
             half == decodeCells(kind, buf, offs, lo, mid, st)
         IN  decodeCells(kind, buf, offs, mid, hi, half)

\* what both decode functions do after the fixed header fields, which end at
\* position pos: cell count, slot array, free size, padding, cells.  The
\* receiver q already holds the header fields.
decodeBody(q, buf, pos) ==
    LET cellCount == ReadLE(buf, pos, 4)
    IN  IF pos + 4 > buf.len \/ cellCount > buf.len \/ pos + 4 + 2 * cellCount + 2 > buf.len
        THEN [err |-> "EOF", node |-> q]
        ELSE LET offs     == q.offsets \o ReadOffsets(buf, pos + 4, cellCount)
                 freeSize == ReadLE(buf, pos + 4 + 2 * cellCount, 2)
                 start    == Min(pos + 4 + 2 * cellCount + 2 + freeSize, buf.len)
                 blank    == [i \in 1..cellCount |-> NilCell]
                 r        == decodeCells(q.kind, buf, offs, 0, cellCount,
                                         [err |-> "", pos |-> start, cells |-> blank])
             IN  [err |-> r.err,
                  node |-> [q EXCEPT !.offsets = offs, !.freeSize = freeSize, !.cells = r.cells]]

\* internalNode.decode into the receiver p
internalNode_decode(p, buf) ==
    IF buf.len < 1 THEN [err |-> "EOF", node |-> p]
    ELSE IF ByteAt(buf, 1) # InternalNode THEN [err |-> "decoding error", node |-> p]
    ELSE IF buf.len < 25 THEN [err |-> "EOF", node |-> p]
    ELSE decodeBody([p EXCEPT !.fileOffset = ReadLE(buf, 1, 8),
                              !.lastLSN = ReadLE(buf, 9, 8),
                              !.rightOffset = ReadLE(buf, 17, 8)], buf, 25)

\* leafNode.decode into the receiver p
leafNode_decode(p, buf) ==
    IF buf.len < 1 THEN [err |-> "EOF", node |-> p]
    ELSE IF ByteAt(buf, 1) # LeafNode THEN [err |-> "decoding error", node |-> p]
    ELSE IF buf.len < 35 THEN [err |-> "EOF", node |-> p]
    ELSE decodeBody([p EXCEPT !.fileOffset = ReadLE(buf, 1, 8),
                              !.lastLSN = ReadLE(buf, 9, 8),
                              !.hasLSib = ReadBool(buf, 17),
                              !.hasRSib = ReadBool(buf, 18),
                              !.lSibFileOffset = ReadLE(buf, 19, 8),
                              !.rSibFileOffset = ReadLE(buf, 27, 8)], buf, 35)

\* btreeNode.decode
decode(p, buf) == IF p.kind = LeafNode THEN leafNode_decode(p, buf) ELSE internalNode_decode(p, buf)

(***************************************************************************)
(* The LRU cache.  Its source is not part of page.go; it is modelled from  *)
(* section 4.3 of the specification.  A cache is the sequence of its       *)
(* entries [key, val] from the most to the least recently used; val is the *)
(* resident node.                                                          *)
(***************************************************************************)
\* the capacity given to NewLRU (10000 in newFileStore), scaled down
CacheCapacity == 1

\* the position of key in cache c, 0 when absent
CacheIndex(c, key) ==
    IF \E i \in 1..Len(c) : c[i].key = key
    THEN CHOOSE i \in 1..Len(c) : c[i].key = key
    ELSE 0

\* cache c without its entry i
CacheDrop(c, i) == [j \in 1..(Len(c) - 1) |-> IF j < i THEN c[j] ELSE c[j + 1]]

\* LRUCache.get: a hit moves the entry to the most recently used end
LRUCache_get(c, key) ==
    LET i == CacheIndex(c, key)
    IN  IF i = 0
        THEN [ok |-> FALSE, val |-> 0, cache |-> c]
        ELSE [ok |-> TRUE, val |-> c[i].val, cache |-> <<c[i]>> \o CacheDrop(c, i)]

\* LRUCache.set: insert or replace; at capacity the least recently used
\* entry that is not dirty is evicted, and the call fails when every entry
\* is dirty
LRUCache_set(c, key, val) ==
    LET i     == CacheIndex(c, key)
        entry == [key |-> key, val |-> val]
        clean == {j \in 1..Len(c) : ~c[j].val.dirty}
    IN  IF i # 0
        THEN [ok |-> TRUE, cache |-> <<entry>> \o CacheDrop(c, i)]
        ELSE IF Len(c) < CacheCapacity
        THEN [ok |-> TRUE, cache |-> <<entry>> \o c]
        ELSE IF clean = {}
        THEN [ok |-> FALSE, cache |-> c]
        ELSE [ok |-> TRUE,
              cache |-> <<entry>> \o CacheDrop(c, CHOOSE j \in clean : \A k \in clean : k <= j)]

(***************************************************************************)
(* The file store (page.go:634-850).  The store's state is a record st:    *)
(*   cache  the LRU cache; its values are the resident nodes               *)
(*   file   the bytes of the backing file                                  *)
(*   open   whether the file is still open                                 *)
(*   fs     lastKey, pageTableRoot, nextFreeOffset, nextLSN of fileStore   *)
(*   err    the error of the call just made: "" for nil, "panic" when the  *)
(*          call panicked                                                  *)
(*   out    the offset the call returned                                   *)
(* A resident node is named by the key of its cache entry: the cache holds *)
(* a pointer to it, and the code caches every node under its fileOffset.   *)
(* An io argument says whether the file operation of the call succeeds.    *)
(***************************************************************************)
\* newFileStore: every field that the literal does not set is zero
newFileStore ==
    [cache |-> <<>>, file |-> ZeroBytes(0), open |-> TRUE,
     fs |-> [lastKey |-> 0, pageTableRoot |-> 0, nextFreeOffset |-> 0, nextLSN |-> 0],
     err |-> "", out |-> 0]

\* the keys of cache c
Keys(c) == {c[i].key : i \in 1..Len(c)}
\* the resident node cached under key
NodeAt(st, key) == st.cache[CacheIndex(st.cache, key)].val
\* the store after the resident node cached under key became node
SetNode(st, key, node) == [st EXCEPT !.cache[CacheIndex(st.cache, key)].val = node]

\* fileStore.setCache
fileStore_setCache(st, key, val) ==
    LET r == LRUCache_set(st.cache, key, val)
    IN  [st EXCEPT !.cache = r.cache, !.err = IF r.ok THEN "" ELSE "ErrLRUCacheFull"]

\* f.file.WriteAt(bytes, off): fails on a closed file or on an I/O error
fileWriteAt(st, bytes, off, io) ==
    IF st.open /\ io /\ off < Huge
    THEN [st EXCEPT !.file = WriteAt(st.file, bytes, off), !.err = ""]
    ELSE [st EXCEPT !.err = "IoError"]

\* fileStore.update after encode returned page: the error of WriteAt is
\* returned after the node is put in the cache, unless the cache is full
fileStore_update_write(st, key, page, io) ==
    LET n == NodeAt(st, key)
        w == fileWriteAt(st, page, n.fileOffset, io)
        c == fileStore_setCache(w, n.fileOffset, n)
    IN  IF c.err # "" THEN c ELSE [c EXCEPT !.err = w.err]

\* fileStore.update of the resident node cached under key
fileStore_update(st, key, io) ==
    LET e == encode(NodeAt(st, key))
    IN  IF e.panic
        THEN [st EXCEPT !.err = "panic"]
        ELSE fileStore_update_write(st, key, e.page, io)

\* fileStore.append whose error path gives back a page it did not take
fileStore_append_Rollback(st, n) ==
    LET a == setFileOffset(n, st.fs.nextFreeOffset)
        c == fileStore_setCache(st, a.fileOffset, a)
    IN  IF c.err # ""
        THEN [c EXCEPT !.fs.nextFreeOffset = Max(0, @ - pageSize)]
        ELSE [c EXCEPT !.fs.nextFreeOffset = @ + pageSize, !.out = a.fileOffset]

\* fileStore.append that does not advance nextFreeOffset
fileStore_append_NoAdvance(st, n) ==
    LET a == setFileOffset(n, st.fs.nextFreeOffset)
        c == fileStore_setCache(st, a.fileOffset, a)
    IN  IF c.err # "" THEN c ELSE [c EXCEPT !.out = a.fileOffset]

\* fileStore.append that advances nextFreeOffset before it caches the node
fileStore_append_AdvanceFirst(st, n) ==
    LET a == setFileOffset(n, st.fs.nextFreeOffset)
        c == fileStore_setCache([st EXCEPT !.fs.nextFreeOffset = @ + pageSize], a.fileOffset, a)
    IN  IF c.err # "" THEN c ELSE [c EXCEPT !.out = a.fileOffset]

\* fileStore.append of the new node n
fileStore_append(st, n) ==
    LET a == setFileOffset(n, st.fs.nextFreeOffset)
        c == fileStore_setCache(st, a.fileOffset, a)
    IN  IF c.err # ""
        THEN c
        ELSE [c EXCEPT !.fs.nextFreeOffset = @ + pageSize, !.out = a.fileOffset]

\* fileStore.fetch: out is the key of the node returned.  On a miss the
\* node decoded from the page is a new node, cached under the file offset
\* it was decoded with.
fileStore_fetch(st, offset, io) ==
    LET g == LRUCache_get(st.cache, offset)
    IN  IF g.ok
        THEN [st EXCEPT !.cache = g.cache, !.err = "", !.out = offset]
        ELSE IF ~(st.open /\ io)
        THEN [st EXCEPT !.err = "IoError"]
        ELSE LET buf  == ReadAt(st.file, offset, pageSize)
                 type == ByteAt(buf, 1)
             IN  IF type \notin {InternalNode, LeafNode}
                 THEN [st EXCEPT !.err = "panic"]
                 ELSE LET d == decode(IF type = LeafNode THEN newLeafNode ELSE newInternalNode, buf)
                          c == fileStore_setCache(st, d.node.fileOffset, d.node)
                      IN  IF d.err # "" THEN [st EXCEPT !.err = d.err]
                          ELSE IF c.err # "" THEN [st EXCEPT !.err = c.err]
                          ELSE [c EXCEPT !.out = d.node.fileOffset]

\* the 28 bytes save writes
HeaderBytes(fs) ==
    LE(fs.lastKey, 4) \o LE(fs.pageTableRoot, 8) \o LE(fs.nextFreeOffset, 8) \o LE(fs.nextLSN, 8)

\* fileStore.save
fileStore_save(st, io) == fileWriteAt(st, Pack(HeaderBytes(st.fs)), 0, io)

\* fileStore.open, on a file read from its start: the header fields
ReadHeader(file) ==
    [lastKey |-> ReadLE(file, 0, 4), pageTableRoot |-> ReadLE(file, 4, 8),
     nextFreeOffset |-> ReadLE(file, 12, 8), nextLSN |-> ReadLE(file, 20, 8)]

\* one iteration of the loop of flushPages, for the cache entry under key;
\* bad is the set of keys whose page write fails
flushNode(st, key, bad) ==
    IF ~NodeAt(st, key).dirty
    THEN st
    ELSE LET u == fileStore_update(st, key, key \notin bad)
         IN  IF u.err # "" THEN u ELSE SetNode(u, key, markClean(NodeAt(u, key)))

\* the loop of flushPages over the cache entries, visited in the order
\* given (a Go map is ranged over in no particular order), from entry i on
RECURSIVE flushLoop(_, _, _, _)
flushLoop(st, order, i, bad) ==
    IF i > Len(order) \/ st.err # ""
    THEN st
    ELSE flushLoop(flushNode(st, order[i], bad), order, i + 1, bad)

\* fileStore.flushPages, the mutex aside: the dirty nodes, then the header
fileStore_flushPages(st, order, bad, hdrIo) ==
    LET l == flushLoop([st EXCEPT !.err = ""], order, 1, bad)
    IN  IF l.err # "" THEN l ELSE fileStore_save(l, hdrIo)

\* fileStore.incrLSN
fileStore_incrLSN(st) == [st EXCEPT !.fs.nextLSN = @ + 1]

\* fileStore.incrementLastKey
fileStore_incrementLastKey(st) == [st EXCEPT !.fs.lastKey = @ + 1]

\* the node that the page stored at offset off of the file decodes to
NodeOnDisk(file, off) ==
    LET buf == ReadAt(file, off, pageSize)
    IN  decode(IF ByteAt(buf, 1) = LeafNode THEN newLeafNode ELSE newInternalNode, buf)

(***************************************************************************)
(* State.                                                                  *)
(***************************************************************************)
VARIABLES
    pg,        \* SpecCodec: the node being built
    phase,     \* SpecCodec: "build", then "encoded", then "decoded"
    enc,       \* SpecCodec: what pg.encode() returned
    back,      \* SpecCodec: what decode of that page into a fresh node returned
    crashed,   \* a call panicked: the process is gone
    store,     \* the file store: its nodes, cache, file and header fields
    last,      \* the call just made, and what it found and returned
    assigned,  \* the offsets that successful appends have assigned, in order
    persisted, \* <<nextFreeOffset, nextLSN on disk>> after the last successful flush
    conc       \* SpecConc: the threads of the store, its mutex, ticker and channel

codecVars == <<pg, phase, enc, back>>
storeVars == <<store, last, assigned, persisted, conc>>
vars == <<codecVars, crashed, storeVars>>

(***************************************************************************)
(* Bounds of the model.                                                    *)
(***************************************************************************)
\* a bulk-loaded node starts this many cells short of full
Headroom == 2
\* number of keys, besides one larger than every other, that are inserted
MaxProbe == 2
\* successful appends in one run of the store
MaxAppends == 2
\* calls of incrLSN and of incrementLastKey in one run of the store
MaxLSN == 1
MaxLastKey == 1
\* ticks of the flush ticker in one run of the store
MaxTicks == 2
\* cell mutations of the foreground thread in one run of the store
MaxMutations == 2
\* keys that a node of SpecNode is given
MaxKeys == 4
\* page writes of the flusher that fail in one run of the store
MaxFaults == 1

(***************************************************************************)
(* SpecCodec: a leaf or an internal node, empty or bulk-loaded by          *)
(* appendCell, is grown by appendCell and insertCell, then encoded, and    *)
(* the page decoded into a fresh node.                                     *)
(***************************************************************************)
\* a value of n bytes
Fill(n) == [i \in 1..n |-> 66]
Values == {<<>>, Fill(maxValueSize)}
ChildOffsets == {pageSize, 2 * pageSize}
\* keys between, below and above the keys 10, 20, ... of a bulk-loaded node
ProbeKeys == {10 * i - 5 : i \in 1..MaxProbe} \cup {10 * maxInternalNodeCells + 5}

\* the node after appendCell of the keys 10, 20, ..., 10 * k to the empty
\* node n, one call per key (page.go:151-159, 347-356)
BulkLoad(n, k) ==
    [n EXCEPT !.offsets = [i \in 1..k |-> Uint16(i - 1)],
              !.cells = [i \in 1..k |->
                  IF n.kind = LeafNode
                  THEN [key |-> 10 * i, valueSize |-> maxValueSize,
                        valueBytes |-> Fill(maxValueSize), deleted |-> FALSE]
                  ELSE [key |-> 10 * i, fileOffset |-> pageSize * (i % 3)]]]

\* nodes as a caller has set their header fields before filling them
FreshNodes ==
    { newLeafNode,
      [newLeafNode EXCEPT !.fileOffset = 2 * pageSize, !.lastLSN = 3, !.hasLSib = TRUE,
                          !.lSibFileOffset = pageSize, !.rSibFileOffset = 0],
      newInternalNode,
      [newInternalNode EXCEPT !.fileOffset = 2 * pageSize, !.lastLSN = 3,
                              !.rightOffset = 3 * pageSize] }

maxCells(n) == IF n.kind = LeafNode THEN maxLeafNodeCells ELSE maxInternalNodeCells

\* the threads of a store before any of them has run
NoThreads ==
    [flusher |-> "select", closer |-> "idle", mtx |-> "", todo |-> <<>>, page |-> ZeroBytes(0),
     running |-> TRUE, tick |-> FALSE, ticks |-> 0,
     mut |-> "idle", mutKey |-> 0, muts |-> 0,
     late |-> FALSE, lastWrite |-> "",
     faults |-> 0, failed |-> {}, retried |-> FALSE,
     err |-> [flusher |-> "", closer |-> ""], busy |-> FALSE]

\* before any call on the store
NoCall == [op |-> "", ok |-> TRUE, prev |-> <<>>, want |-> <<>>]

InitCodec ==
    /\ pg \in UNION {{n, BulkLoad(n, maxCells(n) - Headroom)} : n \in FreshNodes}
    /\ phase = "build"
    /\ enc = [panic |-> FALSE, freeSize |-> 0, page |-> ZeroBytes(0)]
    /\ back = [err |-> "", node |-> newLeafNode]
    /\ crashed = FALSE
    /\ store = newFileStore
    /\ last = NoCall
    /\ assigned = <<>>
    /\ persisted = <<>>
    /\ conc = NoThreads

\* the largest key of a node whose keys are in slot order
getRightmostKey(n) == cellKey(n, n.offsets[Len(n.offsets)])

Building == phase = "build" /\ ~crashed /\ ~isFull(pg)

\* the caller appends a key larger than every key of the node
LeafAppend ==
    /\ Building /\ pg.kind = LeafNode
    /\ \E key \in ProbeKeys, value \in Values :
          /\ Len(pg.offsets) > 0 => key > getRightmostKey(pg)
          /\ pg' = leafNode_appendCell(pg, key, value)
    /\ UNCHANGED <<phase, enc, back, crashed, storeVars>>

InternalAppend ==
    /\ Building /\ pg.kind = InternalNode
    /\ \E key \in ProbeKeys, child \in ChildOffsets :
          /\ Len(pg.offsets) > 0 => key > getRightmostKey(pg)
          /\ pg' = internalNode_appendCell(pg, key, child)
    /\ UNCHANGED <<phase, enc, back, crashed, storeVars>>

\* the caller inserts an absent key at the slot findCellOffsetByKey returns
LeafInsert ==
    /\ Building /\ pg.kind = LeafNode
    /\ \E key \in ProbeKeys, value \in Values :
          LET at == findCellOffsetByKey(pg, key)
              r  == leafNode_insertCell(pg, at.offset, key, value)
          IN  /\ ~at.found /\ ~at.panic
              /\ pg' = r.node
              /\ crashed' = r.panic
    /\ UNCHANGED <<phase, enc, back, storeVars>>

InternalInsert ==
    /\ Building /\ pg.kind = InternalNode
    /\ \E key \in ProbeKeys, child \in ChildOffsets :
          LET at == findCellOffsetByKey(pg, key)
              r  == internalNode_insertCell(pg, at.offset, key, child)
          IN  /\ ~at.found /\ ~at.panic
              /\ pg' = r.node
              /\ crashed' = r.panic
    /\ UNCHANGED <<phase, enc, back, storeVars>>

EncodeNode ==
    /\ phase = "build" /\ ~crashed
    /\ enc' = encode(pg)
    /\ phase' = "encoded"
    /\ UNCHANGED <<pg, back, crashed, storeVars>>

DecodePage ==
    /\ phase = "encoded" /\ ~enc.panic
    /\ back' = decode(IF pg.kind = LeafNode THEN newLeafNode ELSE newInternalNode, enc.page)
    /\ phase' = "decoded"
    /\ UNCHANGED <<pg, enc, crashed, storeVars>>

NextCodec ==
    \/ LeafAppend
    \/ InternalAppend
    \/ LeafInsert
    \/ InternalInsert
    \/ EncodeNode
    \/ DecodePage

SpecCodec == InitCodec /\ [][NextCodec]_vars

(***************************************************************************)
(* Spec: a freshly created file store used by one thread.  Each action is  *)
(* one call of the caller: it appends new nodes, writes to resident nodes  *)
(* (a node operation, then markDirty with the current LSN), and calls      *)
(* update, fetch, flushPages, incrLSN and incrementLastKey.  The caller    *)
(* works on the nodes that append and fetch gave it and that are still     *)
(* resident.                                                               *)
(***************************************************************************)
Init ==
    /\ pg = newLeafNode
    /\ phase = "store"
    /\ enc = [panic |-> FALSE, freeSize |-> 0, page |-> ZeroBytes(0)]
    /\ back = [err |-> "", node |-> newLeafNode]
    /\ crashed = FALSE
    /\ store = newFileStore
    /\ last = NoCall
    /\ assigned = <<>>
    /\ persisted = <<>>
    /\ conc = NoThreads

\* the keys of the resident nodes that are dirty
DirtyKeys(st) == {k \in Keys(st.cache) : NodeAt(st, k).dirty}
\* the offsets a caller fetches: those of the pages appended and one beyond
FetchOffsets == {pageSize * i : i \in 0..MaxAppends}
\* the orders in which a range over the cache can visit its entries
VisitOrders(c) ==
    LET perms == {f \in [1..Len(c) -> 1..Len(c)] : \A i, j \in 1..Len(c) : f[i] = f[j] => i = j}
    IN  {[i \in 1..Len(c) |-> c[f[i]].key] : f \in perms}

\* what is recorded of a call: its name, whether it returned no error, and
\* for flushPages the header that the flush before it had persisted
\* want is the offset that an append which failed set on its node, kept while
\* the caller flushes and until the append that the caller retries has returned
Call(op, st) ==
    [op |-> op, ok |-> st.err = "", prev |-> IF op = "flushPages" THEN persisted ELSE <<>>,
     want |-> IF op = "flushPages" THEN last.want
              ELSE IF st.err # "" THEN <<store.fs.nextFreeOffset>>
              ELSE IF last.op = "flushPages" /\ last.ok THEN last.want
              ELSE <<>>]

\* what is recorded of fetch(off) that returned st
FetchCall(off, st) ==
    [op |-> "fetch", ok |-> st.err = "", prev |-> <<>>, want |-> <<>>, off |-> off]

\* the store after a call returned st; a panic ends the run
Returns(st) ==
    /\ store' = [st EXCEPT !.err = "", !.out = 0]
    /\ crashed' = (st.err = "panic")

\* the node a caller builds before it appends it
NewNode == leafNode_appendCell(newLeafNode, 7, <<65>>)

\* node := a new node; store.append(node)
Append_ ==
    /\ ~crashed /\ Len(assigned) < MaxAppends
    /\ LET st == fileStore_append(store, NewNode)
       IN  /\ Returns(st)
           /\ last' = Call("append", st)
           /\ assigned' = IF st.err = "" THEN Append(assigned, st.out) ELSE assigned
    /\ UNCHANGED <<codecVars, conc, persisted>>

\* the caller changes a resident node: node.markDirty(store.nextLSN())
Write ==
    /\ ~crashed
    /\ \E k \in Keys(store.cache) :
          store' = SetNode(store, k, markDirty(NodeAt(store, k), store.fs.nextLSN))
    /\ last' = NoCall
    /\ UNCHANGED <<codecVars, conc, crashed, assigned, persisted>>

\* store.update(node)
Update ==
    /\ ~crashed
    /\ \E k \in Keys(store.cache) :
          LET st == fileStore_update(store, k, TRUE)
          IN  /\ Returns(st)
              /\ last' = NoCall
    /\ UNCHANGED <<codecVars, conc, assigned, persisted>>

\* store.fetch(offset)
Fetch ==
    /\ ~crashed
    /\ \E off \in FetchOffsets :
          LET st == fileStore_fetch(store, off, TRUE)
          IN  /\ Returns(st)
              /\ last' = FetchCall(off, st)
    /\ UNCHANGED <<codecVars, conc, assigned, persisted>>

\* store.flushPages(); at most one page write or the header write fails
FlushPages ==
    /\ ~crashed
    /\ \E order \in VisitOrders(store.cache), bad \in SUBSET DirtyKeys(store), hdrIo \in BOOLEAN :
          LET st == fileStore_flushPages(store, order, bad, hdrIo)
              hd == ReadHeader(st.file)
          IN  /\ Cardinality(bad) + (IF hdrIo THEN 0 ELSE 1) <= 1
              /\ Returns(st)
              /\ last' = Call("flushPages", st)
              /\ persisted' = IF st.err = ""
                              THEN <<[nextFreeOffset |-> hd.nextFreeOffset, nextLSN |-> hd.nextLSN]>>
                              ELSE persisted
    /\ UNCHANGED <<codecVars, conc, assigned>>

\* store.incrLSN()
IncrLSN ==
    /\ ~crashed /\ store.fs.nextLSN < MaxLSN
    /\ store' = fileStore_incrLSN(store)
    /\ last' = NoCall
    /\ UNCHANGED <<codecVars, conc, crashed, assigned, persisted>>

\* store.incrementLastKey()
IncrementLastKey ==
    /\ ~crashed /\ store.fs.lastKey < MaxLastKey
    /\ store' = fileStore_incrementLastKey(store)
    /\ last' = NoCall
    /\ UNCHANGED <<codecVars, conc, crashed, assigned, persisted>>

Next ==
    \/ Append_
    \/ Write
    \/ Update
    \/ Fetch
    \/ FlushPages
    \/ IncrLSN
    \/ IncrementLastKey

Spec == Init /\ [][Next]_vars

(***************************************************************************)
(* SpecNode: one node, a leaf or an internal node, starts empty and is     *)
(* given keys in any order: a leaf by insertCell at the slot that          *)
(* findCellOffsetByKey returns, an internal node by appendCell of a key    *)
(* larger than its keys and by insertCell.  The caller searches it,        *)
(* updates cells of a leaf, and splits it into a new empty node, possibly   *)
(* after a cell of the leaf was marked deleted; the page that the split    *)
(* leaves is then encoded and decoded.                                     *)
(***************************************************************************)
NodeKeys == {10 * i : i \in 1..MaxKeys}
\* the value and the child offset that a key is inserted with
ValueOf(key) == <<key>>
ChildOf(key) == pageSize * (key \div 10)
\* the values a caller inserts under key, and updates a cell with
InsertValues(key) == {ValueOf(key), Fill(maxValueSize), Fill(maxValueSize + 1)}
UpdateValues == {<<99>>, Fill(maxValueSize), Fill(maxValueSize + 1)}

\* what is recorded of a call on the node pg: the node before the call,
\* the arguments, and what the call returned
NodeCall(op, key, slot, value, r) ==
    [op |-> op, pre |-> pg, key |-> key, slot |-> slot, value |-> value, ret |-> r]

InitNode ==
    /\ pg \in {newLeafNode, [newInternalNode EXCEPT !.rightOffset = pageSize * (MaxKeys + 1)]}
    /\ phase = "node"
    /\ enc = [panic |-> FALSE, freeSize |-> 0, page |-> ZeroBytes(0)]
    /\ back = [err |-> "", node |-> newLeafNode]
    /\ crashed = FALSE
    /\ store = newFileStore
    /\ last = NoCall
    /\ assigned = <<>>
    /\ persisted = <<>>
    /\ conc = NoThreads

\* the keys of the slots of n
KeySet(n) == {cellKey(n, n.offsets[i]) : i \in 1..Len(n.offsets)}

OnNode == phase = "node" /\ ~crashed

\* slot, _ := pg.findCellOffsetByKey(key); pg.insertCell(slot, key, ...)
NodeInsert ==
    /\ OnNode
    /\ \E key \in NodeKeys \ KeySet(pg) :
          LET at == findCellOffsetByKey(pg, key)
          IN  IF pg.kind = LeafNode
              THEN \E value \in InsertValues(key) :
                      LET r == leafNode_insertCell(pg, at.offset, key, value)
                      IN  /\ pg' = r.node
                          /\ crashed' = r.panic
                          /\ last' = NodeCall("insertCell", key, at.offset, value, r)
              ELSE LET r == internalNode_insertCell(pg, at.offset, key, ChildOf(key))
                   IN  /\ pg' = r.node
                       /\ crashed' = r.panic
                       /\ last' = NodeCall("insertCell", key, at.offset, <<>>, r)
    /\ UNCHANGED <<phase, enc, back, store, assigned, persisted, conc>>

\* pg.appendCell(key, child) on an internal node, key above its keys
NodeAppend ==
    /\ OnNode /\ pg.kind = InternalNode
    /\ \E key \in NodeKeys :
          /\ \A k \in KeySet(pg) : k < key
          /\ pg' = internalNode_appendCell(pg, key, ChildOf(key))
          /\ last' = NodeCall("appendCell", key, Len(pg.offsets), <<>>, [panic |-> FALSE])
    /\ UNCHANGED <<phase, enc, back, crashed, store, assigned, persisted, conc>>

\* pg.findCellOffsetByKey(key)
NodeFind ==
    /\ OnNode
    /\ \E key \in NodeKeys :
          LET r == findCellOffsetByKey(pg, key)
          IN  /\ last' = NodeCall("findCellOffsetByKey", key, r.offset, <<>>, r)
              /\ crashed' = r.panic
    /\ UNCHANGED <<pg, phase, enc, back, store, assigned, persisted, conc>>

\* pg.updateCell(key, value) on a leaf
NodeUpdate ==
    /\ OnNode /\ pg.kind = LeafNode
    /\ \E key \in NodeKeys, value \in UpdateValues :
          LET r == leafNode_updateCell(pg, key, value)
          IN  /\ pg' = r.node
              /\ crashed' = r.panic
              /\ last' = NodeCall("updateCell", key, 0, value, r)
    /\ UNCHANGED <<phase, enc, back, store, assigned, persisted, conc>>

\* the caller marks the cell of a slot of a leaf deleted, as the cells of a
\* leaf decoded from a page can be: cell.deleted = true.  The leaf is split
\* next.
NodeMarkDeleted ==
    /\ OnNode /\ pg.kind = LeafNode
    /\ \E i \in 1..Len(pg.offsets) :
          /\ pg' = [pg EXCEPT !.cells[pg.offsets[i] + 1].deleted = TRUE]
          /\ last' = NodeCall("markDeleted", cellKey(pg, pg.offsets[i]), i - 1, <<>>, [panic |-> FALSE])
    /\ phase' = "marked"
    /\ UNCHANGED <<enc, back, crashed, store, assigned, persisted, conc>>

\* newPg := an empty node; key, _ := pg.split(newPg)
NodeSplit ==
    /\ phase \in {"node", "marked"} /\ ~crashed /\ Len(pg.offsets) >= 1
    /\ LET r == IF pg.kind = LeafNode THEN leafNode_split(pg, newLeafNode)
                                      ELSE internalNode_split(pg, newInternalNode)
       IN  /\ pg' = r.old
           /\ crashed' = r.panic
           /\ last' = NodeCall("split", r.key, Len(pg.offsets) \div 2, <<>>, r)
    /\ phase' = "split"
    /\ UNCHANGED <<enc, back, store, assigned, persisted, conc>>

\* pg.encode() of the page that the split left
SplitEncode ==
    /\ phase = "split" /\ ~crashed
    /\ enc' = encode(pg)
    /\ phase' = "encoded"
    /\ UNCHANGED <<pg, back, crashed, storeVars>>

NextNode ==
    \/ NodeInsert
    \/ NodeAppend
    \/ NodeFind
    \/ NodeUpdate
    \/ NodeMarkDeleted
    \/ NodeSplit
    \/ SplitEncode
    \/ DecodePage

SpecNode == InitNode /\ [][NextNode]_vars

(***************************************************************************)
(* SpecConc: the threads of a file store.  The flusher goroutine of        *)
(* newFileStore selects between the ticker and tickerDone and runs         *)
(* flushPages on a tick; a foreground thread mutates resident nodes and    *)
(* marks them dirty, taking no lock; close() stops the ticker, sends on    *)
(* the unbuffered tickerDone, runs the final flushPages and closes the     *)
(* file.  flushPages is run by the flusher and by close(), one statement   *)
(* at a time: lockExclusive, the range over the cache with encode, WriteAt *)
(* and markClean of each dirty node, save, unlockExclusive.  The store has *)
(* been in use before: two nodes were appended, the second was written to  *)
(* and flushed.                                                            *)
(***************************************************************************)
Threads == {"flusher", "closer"}
\* where a thread is inside flushPages
FlushPcs == {"lock", "range", "write", "clean", "save", "unlock"}

\* the store after append, append, markDirty of the second node, flushPages
UsedStore ==
    LET a == fileStore_append(newFileStore, NewNode)
        b == fileStore_append(a, NewNode)
        w == SetNode(b, pageSize, markDirty(NodeAt(b, pageSize), b.fs.nextLSN))
        f == fileStore_flushPages(w, CHOOSE o \in VisitOrders(w.cache) : TRUE, {}, TRUE)
    IN  [f EXCEPT !.out = 0]

InitConc ==
    /\ pg = newLeafNode
    /\ phase = "threads"
    /\ enc = [panic |-> FALSE, freeSize |-> 0, page |-> ZeroBytes(0)]
    /\ back = [err |-> "", node |-> newLeafNode]
    /\ crashed = FALSE
    /\ store = UsedStore
    /\ last = NoCall
    /\ assigned = <<0, pageSize>>
    /\ persisted = <<[nextFreeOffset |-> ReadHeader(UsedStore.file).nextFreeOffset,
                      nextLSN |-> ReadHeader(UsedStore.file).nextLSN]>>
    /\ conc = NoThreads

\* close() has sent on tickerDone: the send of an unbuffered channel
\* completes when the flusher receives
Signalled == conc.closer \notin {"idle", "send"}

\* what remains of conc after thread t wrote to the file, successfully or
\* not: err is the error that flushPages is about to return to t
Wrote(c, t, st) ==
    [c EXCEPT !.lastWrite = IF st.err = "" THEN t ELSE @,
              !.late = @ \/ (t = "flusher" /\ Signalled),
              !.err[t] = st.err]

\* a flushPages that marks the node clean whatever update returned
afterUpdate_IgnoreError(err) == "clean"
\* if err := f.update(node); err != nil { return err }; node.markClean()
afterUpdate(err) == IF err = "" THEN "clean" ELSE "unlock"

\* the flusher after it received from tickerDone: it returns
flusherOnDone_Continue(c) == [c EXCEPT !.flusher = "select"]
flusherOnDone(c) == [c EXCEPT !.flusher = "done"]

\* the ticker fires: its channel holds one tick, further ticks are dropped
Tick ==
    /\ conc.running /\ ~conc.tick /\ conc.ticks < MaxTicks
    /\ conc' = [conc EXCEPT !.tick = TRUE, !.ticks = @ + 1]
    /\ UNCHANGED <<codecVars, crashed, store, last, assigned, persisted>>

\* case <-fs.ticker.C: the flusher calls flushPages
TakeTick ==
    /\ conc.flusher = "select" /\ conc.tick
    /\ conc' = [conc EXCEPT !.tick = FALSE, !.flusher = "lock", !.err.flusher = ""]
    /\ UNCHANGED <<codecVars, crashed, store, last, assigned, persisted>>

\* f.lockExclusive(), and the order in which the range will visit the cache
Lock(t) ==
    /\ conc[t] = "lock" /\ conc.mtx = "" /\ ~crashed
    /\ \E order \in VisitOrders(store.cache) :
          conc' = [conc EXCEPT ![t] = "range", !.mtx = t, !.todo = order]
    /\ UNCHANGED <<codecVars, crashed, store, last, assigned, persisted>>

\* one iteration of the range up to and including encode in update; the
\* loop ends when every entry was visited
Visit(t) ==
    /\ conc[t] = "range" /\ ~crashed
    /\ IF conc.todo = <<>>
       THEN conc' = [conc EXCEPT ![t] = "save"] /\ UNCHANGED crashed
       ELSE IF ~NodeAt(store, Head(conc.todo)).dirty
       THEN conc' = [conc EXCEPT !.todo = Tail(@)] /\ UNCHANGED crashed
       ELSE \E e \in {encode(NodeAt(store, Head(conc.todo)))} :
               /\ conc' = [conc EXCEPT ![t] = "write", !.page = e.page]
               /\ crashed' = e.panic
    /\ UNCHANGED <<codecVars, store, last, assigned, persisted>>

\* the rest of update: WriteAt and setCache; an error ends flushPages.
\* WriteAt of the flusher fails up to MaxFaults times.  failed holds the
\* offsets whose last write failed, retried tells that the flusher has
\* written such an offset in a later flush.
WritePage(t) ==
    /\ conc[t] = "write" /\ ~crashed
    /\ \E io \in IF t = "flusher" /\ conc.faults < MaxFaults THEN BOOLEAN ELSE {TRUE} :
          LET k  == Head(conc.todo)
              st == fileStore_update_write(store, k, conc.page, io)
          IN  /\ store' = [st EXCEPT !.err = ""]
              /\ conc' = [Wrote(conc, t, st) EXCEPT
                              ![t] = afterUpdate(st.err),
                              !.page = ZeroBytes(0),
                              !.faults = IF io THEN @ ELSE @ + 1,
                              !.failed = IF st.err = "" THEN @ \ {k} ELSE @ \cup {k},
                              !.retried = @ \/ (st.err = "" /\ t = "flusher" /\ k \in conc.failed)]
    /\ UNCHANGED <<codecVars, crashed, last, assigned, persisted>>

\* node.markClean()
Clean(t) ==
    /\ conc[t] = "clean" /\ ~crashed
    /\ store' = SetNode(store, Head(conc.todo), markClean(NodeAt(store, Head(conc.todo))))
    /\ conc' = [conc EXCEPT ![t] = "range", !.todo = Tail(@)]
    /\ UNCHANGED <<codecVars, crashed, last, assigned, persisted>>

\* return f.save()
Save(t) ==
    /\ conc[t] = "save" /\ ~crashed
    /\ LET st == fileStore_save(store, TRUE)
       IN  /\ store' = [st EXCEPT !.err = ""]
           /\ conc' = [Wrote(conc, t, st) EXCEPT ![t] = "unlock"]
    /\ UNCHANGED <<codecVars, crashed, last, assigned, persisted>>

\* a flusher goroutine that returns after its first flushPages
afterFlush_Return(t) == IF t = "flusher" THEN "done" ELSE "fileclose"
\* where flushPages returns to: the for loop of the flusher selects again,
\* close() runs the deferred f.file.Close()
afterFlush(t) == IF t = "flusher" THEN "select" ELSE "fileclose"

\* the deferred f.unlockExclusive(); flushPages returns conc.err[t] to its
\* caller: the flusher prints an error and selects again, close() returns it
Unlock(t) ==
    /\ conc[t] = "unlock" /\ ~crashed
    /\ conc' = [conc EXCEPT ![t] = afterFlush(t),
                            !.mtx = "", !.todo = <<>>]
    /\ UNCHANGED <<codecVars, crashed, store, last, assigned, persisted>>

\* close(): f.ticker.Stop().  busy tells that close() was called while the
\* flusher was inside flushPages with another tick waiting in the channel.
CloseStop ==
    /\ conc.closer = "idle"
    /\ conc' = [conc EXCEPT !.closer = "send", !.running = FALSE,
                            !.busy = conc.flusher \in FlushPcs /\ conc.tick]
    /\ UNCHANGED <<codecVars, crashed, store, last, assigned, persisted>>

\* close(): f.tickerDone <- true, received by case <-fs.tickerDone
Signal ==
    /\ conc.closer = "send" /\ conc.flusher = "select"
    /\ conc' = flusherOnDone([conc EXCEPT !.closer = "lock"])
    /\ UNCHANGED <<codecVars, crashed, store, last, assigned, persisted>>

\* close(): the deferred f.file.Close()
FileClose ==
    /\ conc.closer = "fileclose"
    /\ store' = [store EXCEPT !.open = FALSE]
    /\ conc' = [conc EXCEPT !.closer = "closed"]
    /\ UNCHANGED <<codecVars, crashed, last, assigned, persisted>>

\* the foreground thread adds a cell to a resident node
Mutate ==
    /\ conc.mut = "idle" /\ conc.muts < MaxMutations /\ ~crashed
    /\ \E k \in Keys(store.cache) :
          LET n == NodeAt(store, k)
          IN  /\ ~isFull(n)
              /\ Len(n.offsets) > 0 => 8 + conc.muts > getRightmostKey(n)
              /\ store' = SetNode(store, k,
                              IF n.kind = LeafNode
                              THEN leafNode_appendCell(n, 8 + conc.muts, <<66>>)
                              ELSE internalNode_appendCell(n, 8 + conc.muts, pageSize))
              /\ conc' = [conc EXCEPT !.mut = "mutated", !.mutKey = k, !.muts = @ + 1]
    /\ UNCHANGED <<codecVars, crashed, last, assigned, persisted>>

\* the foreground thread: node.markDirty(store.nextLSN())
MarkDirty ==
    /\ conc.mut = "mutated"
    /\ store' = SetNode(store, conc.mutKey, markDirty(NodeAt(store, conc.mutKey), store.fs.nextLSN))
    /\ conc' = [conc EXCEPT !.mut = "idle"]
    /\ UNCHANGED <<codecVars, crashed, last, assigned, persisted>>

NextConc ==
    \/ Tick
    \/ TakeTick
    \/ \E t \in Threads : Lock(t)
    \/ \E t \in Threads : Visit(t)
    \/ \E t \in Threads : WritePage(t)
    \/ \E t \in Threads : Clean(t)
    \/ \E t \in Threads : Save(t)
    \/ \E t \in Threads : Unlock(t)
    \/ CloseStop
    \/ Signal
    \/ FileClose
    \/ Mutate
    \/ MarkDirty

SpecConc == InitConc /\ [][NextConc]_vars

\* SpecConcFair: the threads under a fair scheduler and file I/O that
\* returns.  A goroutine whose next statement can be taken takes it in the
\* end: the flusher its select (a tick that waits, or the receive from
\* tickerDone) and the statements of flushPages, close() its send, its
\* flushPages and the deferred Close.  When the ticker fires, when close()
\* is called and what the foreground thread does is left open.
FlusherStep ==
    \/ TakeTick
    \/ Signal
    \/ Lock("flusher") \/ Visit("flusher") \/ WritePage("flusher")
    \/ Clean("flusher") \/ Save("flusher") \/ Unlock("flusher")

CloserStep ==
    \/ Signal
    \/ Lock("closer") \/ Visit("closer") \/ WritePage("closer")
    \/ Clean("closer") \/ Save("closer") \/ Unlock("closer")
    \/ FileClose

\* whether the next statement of thread t can be taken: a select with a
\* ready case, a lock that is free, a send that has a receiver, or any
\* other statement of a program that has not panicked
Ready(t) ==
    \/ conc[t] = "select" /\ (conc.tick \/ conc.closer = "send")
    \/ conc[t] = "send" /\ conc.flusher = "select"
    \/ conc[t] = "lock" /\ conc.mtx = "" /\ ~crashed
    \/ conc[t] \in FlushPcs \ {"lock"} /\ ~crashed
    \/ conc[t] = "fileclose"

\* weak fairness of the steps of each thread, WF_vars(FlusherStep) and
\* WF_vars(CloserStep), with the enabling condition of the steps written
\* out as Ready
FairConc ==
    /\ []<>(~Ready("flusher")) \/ []<><<FlusherStep>>_vars
    /\ []<>(~Ready("closer")) \/ []<><<CloserStep>>_vars

SpecConcFair == SpecConc /\ FairConc

(***************************************************************************)
(* Properties of the page codec (SpecCodec).                               *)
(***************************************************************************)
\* the cells of a and of b, read in slot order, are the same cells
SameCellsInSlotOrder(a, b) ==
    /\ Len(a.offsets) = Len(b.offsets)
    /\ \A i \in 1..Len(a.offsets) :
          /\ ValidIndex(b, b.offsets[i])
          /\ a.cells[a.offsets[i] + 1] = b.cells[b.offsets[i] + 1]

SameHeaderFields(a, b) ==
    /\ a.kind = b.kind
    /\ a.fileOffset = b.fileOffset
    /\ a.lastLSN = b.lastLSN
    /\ IF a.kind = LeafNode
       THEN /\ a.hasLSib = b.hasLSib /\ a.hasRSib = b.hasRSib
            /\ a.lSibFileOffset = b.lSibFileOffset /\ a.rSibFileOffset = b.rSibFileOffset
       ELSE a.rightOffset = b.rightOffset

\* the slot array is not 0, 1, 2, ...: some cell was inserted before another
SlotsPermuted(n) == \E i \in 1..Len(n.offsets) : n.offsets[i] # i - 1

\* C9: encode/decode round trip. For every leaf or internal node built by
\* appendCell (increasing keys) and insertCell (slot from
\* findCellOffsetByKey) with at most the maximum number of cells, decoding
\* the encoded page into a fresh node of the same variant succeeds and
\* yields equal header fields, the same keys in slot order and, per key,
\* the same value bytes, value size and deleted flag or child offset.
C9_RoundTrip ==
    phase = "decoded" =>
        /\ back.err = ""
        /\ SameHeaderFields(pg, back.node)
        /\ SlotKeys(back.node) = SlotKeys(pg)
        /\ SameCellsInSlotOrder(pg, back.node)

\* a full internal node whose slot order differs from its cell order, with
\* populated header fields, has been encoded and decoded
C9_Witness ==
    /\ phase = "decoded"
    /\ pg.kind = InternalNode
    /\ Len(pg.offsets) = maxInternalNodeCells
    /\ SlotsPermuted(pg)
    /\ pg.fileOffset # 0

\* the sum of the numbers of the sequence s, by halves
RECURSIVE SumSeq(_)
SumSeq(s) ==
    IF Len(s) = 0 THEN 0
    ELSE IF Len(s) = 1 THEN s[1]
    ELSE LET m == Len(s) \div 2
         IN  SumSeq(SubSeq(s, 1, m)) + SumSeq(SubSeq(s, m + 1, Len(s)))

\* the bytes of a page that the layout of section 4.1 gives to the header,
\* the slot array and the cells of node n
UsedBytes(n) ==
    IF n.kind = LeafNode
    THEN leafNodeHeaderSize + offsetElemSize * Len(n.offsets)
         + SumSeq([i \in 1..Len(n.offsets) |-> 4 + 1 + 4 + n.cells[n.offsets[i] + 1].valueSize])
    ELSE internalNodeHeaderSize + (offsetElemSize + internalNodeCellSize) * Len(n.offsets)

ValuesFit(n) ==
    n.kind = LeafNode =>
        \A i \in 1..Len(n.offsets) : Len(n.cells[n.offsets[i] + 1].valueBytes) <= maxValueSize

\* C10: page size. For every internal node of 0..maxInternalNodeCells cells
\* and every leaf node of 0..maxLeafNodeCells cells with values of at most
\* 400 bytes, encode does not panic, the page is exactly 4096 bytes, and
\* the 16-bit free size is the non-negative number of bytes left over.
C10_PageSize ==
    (phase # "build" /\ Len(pg.offsets) <= maxCells(pg) /\ ValuesFit(pg)) =>
        /\ ~enc.panic
        /\ enc.page.len = pageSize
        /\ enc.freeSize = pageSize - UsedBytes(pg)

\* a full leaf whose values are all of the maximum size has been encoded
C10_Witness ==
    /\ phase = "encoded"
    /\ pg.kind = LeafNode
    /\ Len(pg.offsets) = maxLeafNodeCells
    /\ \A i \in 1..Len(pg.offsets) : pg.cells[pg.offsets[i] + 1].valueSize = maxValueSize
    /\ SlotsPermuted(pg)
(***************************************************************************)
(* Properties of the file store used by one thread (Spec).                 *)
(***************************************************************************)
\* the page stored at the file offset of node n decodes to a node equal to n
OnDisk(file, n) ==
    LET d == NodeOnDisk(file, n.fileOffset)
    IN  /\ d.err = ""
        /\ SameHeaderFields(n, d.node)
        /\ SameCellsInSlotOrder(n, d.node)

\* C1: durability after flush, one thread. When flushPages returns without
\* error, every cached node that was dirty before the call is still cached
\* and now clean, and the page stored at its file offset, after the header
\* was written, decodes to a node equal to the in-memory one.
C1_DurableAfterFlush ==
    [][(last'.op = "flushPages" /\ last'.ok) =>
          \A k \in DirtyKeys(store) :
              /\ k \in Keys(store'.cache)
              /\ ~NodeAt(store', k).dirty
              /\ OnDisk(store'.file, NodeAt(store', k))]_vars

\* C3: dirty pages are never dropped from the cache. Across any append,
\* update or fetch, a resident node that is dirty stays resident under its
\* offset as the very same node (a caller's write changes its lastLSN
\* only), and an append that would have to evict when every resident node
\* is dirty fails.
C3_DirtyStaysCached ==
    [][last'.op # "flushPages" =>
          /\ \A k \in DirtyKeys(store) :
                /\ k \in Keys(store'.cache)
                /\ [NodeAt(store', k) EXCEPT !.lastLSN = 0] = [NodeAt(store, k) EXCEPT !.lastLSN = 0]
          /\ (/\ last'.op = "append"
              /\ Len(store.cache) = CacheCapacity
              /\ DirtyKeys(store) = Keys(store.cache)
              /\ store.fs.nextFreeOffset \notin Keys(store.cache)) => ~last'.ok]_vars

\* C4: after a successful append the appended node is dirty in the cache,
\* without the caller having called markDirty.
C4_AppendedIsDirty ==
    (last.op = "append" /\ last.ok) =>
        /\ assigned[Len(assigned)] \in Keys(store.cache)
        /\ NodeAt(store, assigned[Len(assigned)]).dirty

\* C5: on a freshly created store no append assigns file offset 0: every
\* assigned offset is a positive multiple of the page size, so that no page
\* overlaps the header at offset 0.
C5_NoPageAtHeader ==
    \A i \in 1..Len(assigned) : assigned[i] >= pageSize /\ assigned[i] % pageSize = 0

\* C6: each successful append assigns the node the current nextFreeOffset,
\* caches it under that offset and advances nextFreeOffset by the page
\* size; the offset is larger than every offset assigned before.
C6_AppendAssignsNextFree ==
    [][(last'.op = "append" /\ last'.ok) =>
          LET off == assigned'[Len(assigned')]
          IN  /\ Len(assigned') = Len(assigned) + 1
              /\ off = store.fs.nextFreeOffset
              /\ off \in Keys(store'.cache)
              /\ NodeAt(store', off).fileOffset = off
              /\ store'.fs.nextFreeOffset = off + pageSize
              /\ \A i \in 1..Len(assigned) : assigned[i] < off]_vars

\* a second append has just succeeded
C6_Witness == last.op = "append" /\ last.ok /\ Len(assigned) >= 2

\* C8: header monotonicity. The nextFreeOffset and nextLSN that a
\* successful flushPages leaves in the header of the file are not smaller
\* than those the successful flush before it left there.
C8_HeaderMonotonic ==
    (last.op = "flushPages" /\ last.ok /\ last.prev # <<>>) =>
        /\ persisted[1].nextFreeOffset >= last.prev[1].nextFreeOffset
        /\ persisted[1].nextLSN >= last.prev[1].nextLSN

\* a flush has persisted a header in which both fields are larger than
\* in the header that the flush before it persisted
C8_Witness ==
    /\ last.op = "flushPages" /\ last.ok /\ last.prev # <<>>
    /\ persisted[1].nextFreeOffset > last.prev[1].nextFreeOffset
    /\ persisted[1].nextLSN > last.prev[1].nextLSN

\* C21: CacheFull is recoverable. When append fails with ErrLRUCacheFull,
\* nextFreeOffset is not advanced and the node is not resident in the cache:
\* the failed append takes no offset. When a flushPages that follows has
\* returned without error, so that the resident pages are clean, the append
\* that the caller retries succeeds and is given the offset that the failed
\* call had set on its node.
C21_CacheFullRecoverable ==
    [][/\ (last'.op = "append" /\ ~last'.ok) =>
             /\ store'.fs.nextFreeOffset = store.fs.nextFreeOffset
             /\ store'.cache = store.cache
             /\ store.fs.nextFreeOffset \notin Keys(store'.cache)
             /\ assigned' = assigned
             /\ last'.want = <<store.fs.nextFreeOffset>>
       /\ (last.op = "flushPages" /\ last.ok /\ last.want # <<>> /\ last'.op = "append") =>
             /\ last'.ok
             /\ assigned' = Append(assigned, last.want[1])
             /\ last.want[1] \in Keys(store'.cache)
             /\ store'.fs.nextFreeOffset = last.want[1] + pageSize]_vars

\* an append failed, flushPages returned without error, and the append
\* retried after it has succeeded
C21_Witness ==
    /\ last.op = "append" /\ last.ok /\ last.want # <<>>
    /\ assigned # <<>> /\ assigned[Len(assigned)] = last.want[1]

\* C20: fetch caching. fetch(o) on a cache hit returns the resident node
\* and leaves the file alone; on a miss that succeeds, the node returned is
\* put in the cache under the requested offset o and has fileOffset o, so
\* that a following fetch(o) returns the same node, and no cache entry
\* under another offset is added or replaced; for every o, also at or
\* beyond the end of the file.
C20_FetchCaching ==
    [][(last'.op = "fetch" /\ last'.ok) =>
          LET o == last'.off
          IN  /\ store'.file = store.file
              /\ o \in Keys(store'.cache)
              /\ NodeAt(store', o).fileOffset = o
              /\ o \in Keys(store.cache) => NodeAt(store', o) = NodeAt(store, o)
              /\ \A k \in Keys(store'.cache) \ {o} :
                    k \in Keys(store.cache) /\ NodeAt(store', k) = NodeAt(store, k)]_vars

(***************************************************************************)
(* Properties of the threads of the file store (SpecConc).                 *)
(***************************************************************************)
\* C2: cross-thread durability. Under every interleaving of a foreground
\* thread (a cell mutation, then markDirty, no lock) with the steps of a
\* flush (encode, write, markClean), a resident node whose dirty bit is
\* clear, and that is not between a mutation and its markDirty, equals the
\* page stored at its offset.
C2_CleanMeansOnDisk ==
    \A k \in Keys(store.cache) :
        (~NodeAt(store, k).dirty /\ ~(conc.mut = "mutated" /\ conc.mutKey = k)) =>
            OnDisk(store.file, NodeAt(store, k))

\* C7: shutdown ordering. Once close() has signalled the flusher, the
\* flusher has returned and no background flush writes a page or the
\* header; the final flush never runs while a background flush does; the
\* file is closed only by close(), after its final flush, whose write is
\* the last write to the file.
C7_ShutdownOrdering ==
    /\ Signalled => conc.flusher = "done"
    /\ ~conc.late
    /\ conc.closer \in FlushPcs \ {"lock"} => conc.flusher \notin FlushPcs \ {"lock"}
    /\ ~store.open => conc.closer = "closed"
    /\ conc.closer = "closed" => ~store.open /\ conc.lastWrite = "closer"

\* close() has returned after a background flush ran and while a tick that
\* the flusher never took is still in the channel of the ticker
C7_Witness ==
    /\ conc.closer = "closed"
    /\ conc.tick
    /\ conc.ticks = MaxTicks

\* C19: flush failure handling. When the write of a dirty node fails during
\* flushPages, the dirty bit of that node stays set: a node is marked clean
\* only after its own page write succeeded; flushPages returns the error to
\* its caller; and the flusher goes on selecting after a failed tick (it
\* returns only when close() signals it), so that a later tick writes the
\* node again.
C19_FlushFailure ==
    /\ \A k \in conc.failed \cap Keys(store.cache) : NodeAt(store, k).dirty
    /\ \A t \in Threads : conc[t] = "clean" => Head(conc.todo) \notin conc.failed
    /\ (conc.failed # {} /\ conc.flusher \in {"unlock", "select"}) => conc.err.flusher = "IoError"
    /\ conc.flusher = "done" => Signalled

\* after a tick whose write failed, the flusher has written the node in a
\* later tick: the node is clean and on disk, and the flusher selects again
C19_Witness ==
    /\ conc.faults > 0 /\ conc.retried /\ conc.failed = {}
    /\ conc.flusher = "select" /\ conc.closer = "idle"
    /\ conc.err.flusher = ""
    /\ \E k \in Keys(store.cache) :
          ~NodeAt(store, k).dirty /\ OnDisk(store.file, NodeAt(store, k))


(***************************************************************************)
(* Properties of the operations of one node (SpecNode).                    *)
(***************************************************************************)
\* the (key, child offset) pairs of an internal node, the (key, value)
\* pairs of a leaf, at the (0-based) slots from .. to - 1 in slot order
SlotPairs(n, from, to) ==
    [i \in 1..(to - from) |->
        LET c == n.cells[n.offsets[from + i] + 1]
        IN  IF n.kind = LeafNode THEN <<c.key, c.valueBytes>> ELSE <<c.key, c.fileOffset>>]

AllPairs(n) == SlotPairs(n, 0, Len(n.offsets))

StrictlyIncreasing(s) == \A i \in 1..(Len(s) - 1) : s[i] < s[i + 1]

SplitOf(kind) == last.op = "split" /\ last.pre.kind = kind

\* C11: internal split. For an internal node of n >= 1 slots, whatever the
\* order its cells were inserted in, split returns the key of the cell at
\* slot mid = n / 2, the old page keeps exactly the cells of the slots
\* [0, mid) and its rightOffset becomes the child offset of that median
\* cell, and the new page holds the cells of the slots (mid, n) in order and
\* the former rightOffset of the old page.
C11_InternalSplit ==
    SplitOf(InternalNode) =>
        LET p   == last.pre
            n   == Len(p.offsets)
            mid == n \div 2
            med == p.cells[p.offsets[mid + 1] + 1]
        IN  /\ ~last.ret.panic
            /\ last.ret.key = med.key
            /\ AllPairs(pg) = SlotPairs(p, 0, mid)
            /\ pg.rightOffset = med.fileOffset
            /\ AllPairs(last.ret.new) = SlotPairs(p, mid + 1, n)
            /\ last.ret.new.rightOffset = p.rightOffset

\* C12: leaf update. For a leaf, whatever its slot order, and a value of at
\* most maxValueSize bytes: updateCell of a key of the leaf overwrites
\* valueBytes and valueSize of exactly the cell with that key and leaves
\* every other cell and the slots as they were; updateCell of an absent key
\* returns the not-found error and leaves the node as it was.
C12_LeafUpdate ==
    (last.op = "updateCell" /\ Len(last.value) <= maxValueSize) =>
        LET p == last.pre
        IN  /\ ~last.ret.panic
            /\ IF last.key \in KeySet(p)
               THEN /\ last.ret.err = ""
                    /\ pg.offsets = p.offsets
                    /\ Len(pg.cells) = Len(p.cells)
                    /\ \A i \in 1..Len(p.cells) :
                          pg.cells[i] = IF p.cells[i].key = last.key
                                        THEN [p.cells[i] EXCEPT !.valueBytes = last.value,
                                                                !.valueSize = Len(last.value)]
                                        ELSE p.cells[i]
               ELSE /\ last.ret.err = "NotFound"
                    /\ pg = p

\* the elements of the sequence s as a bag: how often each of them occurs
Occurrences(s, x) == Cardinality({i \in 1..Len(s) : s[i] = x})
SameBag(s, t) ==
    /\ Len(s) = Len(t)
    /\ \A i \in 1..Len(s) : Occurrences(s, s[i]) = Occurrences(t, s[i])

\* C13: leaf split. For a leaf of n >= 1 slots, split leaves the slots
\* [0, n / 2) on the old page and appends the slots [n / 2, n) to the empty
\* new page in key order: the (key, value) pairs of the two pages together
\* are those of the page before the split, the slot counts add up to n, and
\* the returned separator is the smallest key of the new page.
C13_LeafSplit ==
    SplitOf(LeafNode) =>
        LET p   == last.pre
            n   == Len(p.offsets)
            mid == n \div 2
            new == last.ret.new
        IN  /\ ~last.ret.panic
            /\ AllPairs(pg) = SlotPairs(p, 0, mid)
            /\ AllPairs(new) = SlotPairs(p, mid, n)
            /\ SameBag(AllPairs(pg) \o AllPairs(new), AllPairs(p))
            /\ Len(pg.offsets) + Len(new.offsets) = n
            /\ \A k \in KeySet(new) : last.ret.key <= k
            /\ last.ret.key \in KeySet(new)
            /\ \A k \in KeySet(pg), k2 \in KeySet(new) : k < k2

\* a leaf of several keys, inserted in an order other than the key order, was
\* split and both pages hold cells
C13_Witness ==
    /\ SplitOf(LeafNode) /\ ~last.ret.panic
    /\ Len(last.pre.offsets) = MaxKeys
    /\ last.pre.offsets # [i \in 1..MaxKeys |-> i - 1]
    /\ Len(pg.offsets) >= 2 /\ Len(last.ret.new.offsets) >= 2

\* a leaf whose cells all came from insertCell at the slot that
\* findCellOffsetByKey returned, and that has not been split
InsertedLeaf == phase = "node" /\ pg.kind = LeafNode /\ ~crashed

\* C14: key ordering of a leaf. Starting from an empty leaf, after any
\* sequence of insertCell(slot, key, value) of keys absent from the node,
\* each at the slot that findCellOffsetByKey(key) returned, the keys
\* cells[offsets[i]].key read in slot order are strictly increasing, every
\* offsets[i] is the index of an existing cell, and the slots are a
\* permutation of the indices of the cells.
C14_LeafKeyOrder ==
    InsertedLeaf =>
        /\ SlotsValid(pg)
        /\ StrictlyIncreasing(SlotKeys(pg))
        /\ Len(pg.offsets) = Len(pg.cells)
        /\ {pg.offsets[i] : i \in 1..Len(pg.offsets)} = 0..(Len(pg.cells) - 1)

\* a leaf of MaxKeys keys whose last insertCell was at a slot before the end
C14_Witness ==
    /\ InsertedLeaf
    /\ last.op = "insertCell" /\ last.ret.err = ""
    /\ Len(pg.offsets) = MaxKeys
    /\ last.slot < Len(last.pre.offsets)

\* C15: search correctness. For a leaf or internal node whose keys are
\* strictly increasing in slot order and any probe key k,
\* findCellOffsetByKey(k) returns (i, true) with the key of slot i equal to
\* k iff some slot holds k; otherwise it returns (i, false) with
\* 0 <= i <= len(offsets), every key of a slot before i less than k and
\* every key of a slot from i on greater than k; the node is not modified.
C15_Search ==
    (/\ last.op = "findCellOffsetByKey"
     /\ SlotsValid(last.pre)
     /\ StrictlyIncreasing(SlotKeys(last.pre))) =>
        LET p    == last.pre
            keys == SlotKeys(p)
            i    == last.ret.offset
        IN  /\ ~last.ret.panic
            /\ pg = p
            /\ last.ret.found <=> (last.key \in KeySet(p))
            /\ last.ret.found => (i >= 0 /\ i < Len(keys) /\ keys[i + 1] = last.key)
            /\ ~last.ret.found =>
                  /\ i >= 0 /\ i <= Len(keys)
                  /\ \A j \in 1..Len(keys) : IF j <= i THEN keys[j] < last.key
                                                        ELSE keys[j] > last.key

\* an internal node of MaxKeys - 1 keys was searched for an absent key that
\* belongs between two of its keys
C15_Witness ==
    /\ last.op = "findCellOffsetByKey"
    /\ pg.kind = InternalNode
    /\ Len(pg.offsets) = MaxKeys - 1
    /\ ~last.ret.found
    /\ last.ret.offset > 0 /\ last.ret.offset < Len(pg.offsets)

LeafCall == last.op \in {"insertCell", "updateCell"} /\ last.pre.kind = LeafNode

\* C16: row-too-large rejection. insertCell and updateCell of a leaf with a
\* value longer than maxValueSize bytes return ErrRowTooLarge and leave the
\* slots and the cells of the node as they were, whether or not the key is
\* in the node; a value of exactly maxValueSize bytes passes the size
\* check: insertCell adds the cell, updateCell returns nil for a key of the
\* node.
C16_RowTooLarge ==
    LeafCall =>
        /\ ~last.ret.panic
        /\ Len(last.value) > maxValueSize =>
              /\ last.ret.err = "ErrRowTooLarge"
              /\ pg = last.pre
        /\ Len(last.value) = maxValueSize =>
              /\ last.ret.err # "ErrRowTooLarge"
              /\ last.op = "insertCell" =>
                    /\ last.ret.err = ""
                    /\ Len(pg.offsets) = Len(last.pre.offsets) + 1
                    /\ pg.cells[pg.offsets[last.slot + 1] + 1].valueSize = maxValueSize
              /\ (last.op = "updateCell" /\ last.key \in KeySet(last.pre)) =>
                    last.ret.err = ""

\* updateCell of a key that is not in a leaf of several cells, with a value
\* of maxValueSize + 1 bytes, was rejected for the size of the value
C16_Witness ==
    /\ LeafCall /\ last.op = "updateCell"
    /\ Len(last.value) = maxValueSize + 1
    /\ last.key \notin KeySet(last.pre)
    /\ Len(last.pre.offsets) >= 2
    /\ last.ret.err = "ErrRowTooLarge"

\* C17: internal insert at slot. For an internal node and a key absent from
\* it, insertCell(slot, key, child) with slot = findCellOffsetByKey(key)
\* completes normally for every slot in 0..len(offsets), slot ==
\* len(offsets) included (a key above all keys of the node, or an empty
\* node); afterwards offsets[slot] is the index of the new cell and the
\* keys in slot order are strictly increasing.
C17_InternalInsert ==
    (last.op = "insertCell" /\ last.pre.kind = InternalNode) =>
        /\ ~last.ret.panic
        /\ Len(pg.offsets) = Len(last.pre.offsets) + 1
        /\ pg.offsets[last.slot + 1] = Len(pg.cells) - 1
        /\ cellKey(pg, pg.offsets[last.slot + 1]) = last.key
        /\ StrictlyIncreasing(SlotKeys(pg))

\* the page that a split left was encoded / encoded and decoded
SplitEncoded == last.op = "split" /\ phase \in {"encoded", "decoded"} /\ ~enc.panic
SplitDecoded == last.op = "split" /\ phase = "decoded"

\* the cell count and the slot values that encode wrote into the page: the
\* count is the last header field but the free size, the slots follow it
CellCountPos ==
    (IF pg.kind = LeafNode THEN leafNodeHeaderSize ELSE internalNodeHeaderSize) - 6
EncodedCellCount == ReadLE(enc.page, CellCountPos, 4)
EncodedSlots == ReadOffsets(enc.page, CellCountPos + 4, EncodedCellCount)

\* C18: the page that kept the lower half of a split can be persisted. For
\* a leaf or internal node built by insertCell in any key order and then
\* split, every slot value that encode writes is smaller than the cell
\* count that it writes, and decode of the page succeeds and yields exactly
\* the retained keys in order with their values or child offsets.
C18_OldPagePersistable ==
    /\ SplitEncoded =>
          /\ EncodedCellCount = Len(pg.offsets)
          /\ \A i \in 1..EncodedCellCount : EncodedSlots[i] < EncodedCellCount
    /\ SplitDecoded =>
          /\ back.err = ""
          /\ back.node.kind = pg.kind
          /\ SlotsValid(back.node)
          /\ AllPairs(back.node) = AllPairs(pg)

\* the cells of the leaf n at the (0-based) slots from .. to - 1, in slot
\* order, each with its key, value and deleted flag
SlotCells(n, from, to) ==
    [i \in 1..(to - from) |->
        LET c == n.cells[n.offsets[from + i] + 1]
        IN  [key |-> c.key, valueBytes |-> c.valueBytes, deleted |-> c.deleted]]

\* C23: leaf split preserves each moved cell completely. Every cell that a
\* leaf split moves to the new page has the key, the value and the deleted
\* flag it had before the split: a cell marked deleted before the split is
\* marked deleted on the new page.
C23_SplitKeepsDeleted ==
    SplitOf(LeafNode) =>
        LET p == last.pre
            n == Len(p.offsets)
        IN  /\ ~last.ret.panic
            /\ SlotCells(last.ret.new, 0, Len(last.ret.new.offsets)) = SlotCells(p, n \div 2, n)

(***************************************************************************)
(* Properties of the threads under a fair scheduler (SpecConcFair).        *)
(***************************************************************************)
\* Ready(t) is the enabling condition of the steps of thread t: these two
\* predicates hold in every state of SpecConc, so that FairConc is
\* WF_vars(FlusherStep) /\ WF_vars(CloserStep)
ReadyIsEnabledFlusher == Ready("flusher") <=> ENABLED <<FlusherStep>>_vars
ReadyIsEnabledCloser == Ready("closer") <=> ENABLED <<CloserStep>>_vars

\* C22: shutdown liveness. A call of close() on an open store returns in
\* the end, under fair scheduling and file I/O that returns, also when a
\* flush of the flusher is in progress or a tick is waiting at the call:
\* the flusher receives the signal on tickerDone and returns, the final
\* flush takes the exclusive lock, and close() returns with the file closed.
C22_CloseReturns ==
    /\ (conc.closer = "send") ~> (conc.flusher = "done")
    /\ (conc.closer = "send") ~> (conc.closer = "range" /\ conc.mtx = "closer")
    /\ (conc.closer = "send") ~> (conc.closer = "closed" /\ ~store.open)

\* close() has returned; when it was called the flusher was inside
\* flushPages and another tick was waiting in the channel of the ticker
C22_Witness ==
    /\ conc.closer = "closed"
    /\ conc.busy

====
